---- MODULE Spec2Model ----
(***************************************************************************)
(* A model of "git mv" (builtin-mv.c, cmd_mv): the validation pass over    *)
(* the (source, destination) pairs, the executor loop that renames on the  *)
(* filesystem and classifies paths, and the final update of the index.     *)
(*                                                                         *)
(* Paths are byte strings, modelled as sequences of byte values, so that   *)
(* the index order (memcmp order) and the prefix tests are those of the    *)
(* code.  Array indices (i, count, positions in the index) keep the code's *)
(* 0-based values; a sequence is read at index + 1.                        *)
(***************************************************************************)
EXTENDS Integers, Sequences, FiniteSets, TLC

VARIABLES
    fs,                  \* the working tree: path -> [kind, data]
    index_file,          \* the persisted index (sorted sequence of entries)
    lock,                \* the lock file on the index: "none", "held", "committed", "removed"
    pc,                  \* where cmd_mv is
    argv_src, argv_dst,  \* the path arguments of the invocation
    show_only, force, ignore_errors,
    source, destination, modes, count, i,
    st,                  \* st.st_mode as left by the last successful lstat
    overwritten, src_for_dst, added, deleted, changed,
    active_cache, active_cache_changed,
    status, msg,         \* exit status (-1 while running) and the fatal message
    renames,             \* the rename(2) calls made, in order, with their result
    rejects,             \* the pairs validation found bad, in order, with the reason
    reported,            \* what show_list printed (dry run)
    reruns,              \* how many times the command was repeated after a dry run
    envfails,            \* renames refused by the environment in this invocation
    fs0, index0          \* the working tree and the index at the start of the invocation

vars == <<fs, index_file, lock, pc, argv_src, argv_dst, show_only, force,
          ignore_errors, source, destination, modes, count, i, st, overwritten,
          src_for_dst, added, deleted, changed, active_cache,
          active_cache_changed, status, msg, renames, rejects, reported, reruns,
          envfails, fs0, index0>>

-----------------------------------------------------------------------------
(* Bounds of the model *)

MaxSources == 2
MaxRenameFailures == 1
MaxReruns == 1

-----------------------------------------------------------------------------
(* Program constants *)

Slash == 47
BOTH == 0
WORKING_DIRECTORY == 1
INDEX == 2

NULL == "NULL"
ENOENT == "enoent"

(* The paths of the modelled working trees: "a", "a/x", "a/y", "a-", "b",  *)
(* "d", "d/f", "f", "u", "a/b", "f/b".                                     *)
P_a == <<97>>
P_ax == <<97, 47, 120>>
P_ay == <<97, 47, 121>>
P_asib == <<97, 45>>
P_b == <<98>>
P_d == <<100>>
P_df == <<100, 47, 102>>
P_f == <<102>>
P_u == <<117>>
P_ab == <<97, 47, 98>>
P_fb == <<102, 47, 98>>

-----------------------------------------------------------------------------
(* Byte strings *)

MinOf(S) == CHOOSE x \in S : \A y \in S : x <= y

\* strncmp(path, dir, strlen(dir)) == 0
StartsWith(path, dir) ==
    /\ Len(path) >= Len(dir)
    /\ SubSeq(path, 1, Len(dir)) = dir

\* the byte at offset len of a NUL-terminated string (0 at its end)
ByteAt(path, len) == IF len < Len(path) THEN path[len + 1] ELSE 0

\* cache_name_compare: memcmp over the common length, then the shorter first
cache_name_compare(p, q) ==
    LET n == IF Len(p) < Len(q) THEN Len(p) ELSE Len(q)
        diff == {k \in 1..n : p[k] # q[k]}
    IN  IF diff # {}
        THEN (IF p[MinOf(diff)] < q[MinOf(diff)] THEN -1 ELSE 1)
        ELSE IF Len(p) < Len(q) THEN -1
        ELSE IF Len(p) > Len(q) THEN 1
        ELSE 0

\* add_slash
add_slash(path) ==
    IF path[Len(path)] # Slash THEN Append(path, Slash) ELSE path

\* copy_pathspec(..., base_name = 1): what follows the last '/'
BaseName(path) ==
    LET sl == {k \in 1..Len(path) : path[k] = Slash}
    IN  IF sl = {} THEN path
        ELSE SubSeq(path, (CHOOSE k \in sl : \A m \in sl : m <= k) + 1, Len(path))

\* the directory part of a path (empty at the top level)
ParentOf(path) ==
    LET sl == {k \in 1..Len(path) : path[k] = Slash}
    IN  IF sl = {} THEN <<>>
        ELSE SubSeq(path, 1, (CHOOSE k \in sl : \A m \in sl : m <= k) - 1)

\* path lies below the directory dir
Below(path, dir) == StartsWith(path, dir) /\ ByteAt(path, Len(dir)) = Slash

-----------------------------------------------------------------------------
(* The index *)

Names(cache) == {cache[k].name : k \in 1..Len(cache)}

EntryOf(cache, name) == cache[CHOOSE k \in 1..Len(cache) : cache[k].name = name]

\* cache_name_pos: the position of name, or -1 - (its insertion point)
cache_name_pos(cache, name) ==
    IF name \in Names(cache)
    THEN (CHOOSE k \in 1..Len(cache) : cache[k].name = name) - 1
    ELSE -1 - Cardinality({k \in 1..Len(cache) :
                              cache_name_compare(cache[k].name, name) < 0})

RECURSIVE SortEntries(_)
SortEntries(S) ==
    IF S = {} THEN <<>>
    ELSE LET e == CHOOSE x \in S :
                      \A y \in S : cache_name_compare(x.name, y.name) <= 0
         IN  <<e>> \o SortEntries(S \ {e})

EntriesOf(cache) == {cache[k] : k \in 1..Len(cache)}

\* add_cache_entry with OK_TO_ADD | OK_TO_REPLACE
InsertEntry(cache, e) ==
    SortEntries({x \in EntriesOf(cache) : x.name # e.name} \cup {e})

RemoveEntries(cache, names) ==
    SortEntries({x \in EntriesOf(cache) : x.name \notin names})

-----------------------------------------------------------------------------
(* The filesystem *)

\* lstat: the kind of the path, or ENOENT
Lstat(path) == IF path \in DOMAIN fs THEN fs[path].kind ELSE ENOENT

\* whether rename(src, dst) succeeds on the working tree f
RenameOk(f, src, dst) ==
    /\ src \in DOMAIN f
    /\ \/ ParentOf(dst) = <<>>
       \/ /\ ParentOf(dst) \in DOMAIN f
          /\ f[ParentOf(dst)].kind = "dir"
    /\ \/ src = dst
       \/ /\ f[src].kind = "dir"
          /\ ~Below(dst, src)
          /\ \/ dst \notin DOMAIN f
             \/ /\ f[dst].kind = "dir"
                /\ ~\E p \in DOMAIN f : Below(p, dst)
       \/ /\ f[src].kind = "reg"
          /\ \/ dst \notin DOMAIN f
             \/ f[dst].kind = "reg"

\* the working tree after a successful rename(src, dst)
RenameApply(f, src, dst) ==
    IF src = dst THEN f
    ELSE LET moved == {p \in DOMAIN f : p = src \/ Below(p, src)}
             kept == (DOMAIN f \ moved) \ {dst}
             target(p) == dst \o SubSeq(p, Len(src) + 1, Len(p))
             origin(q) == CHOOSE p \in moved : target(p) = q
         IN  [q \in kept \cup {target(p) : p \in moved} |->
                 IF q \in kept THEN f[q] ELSE f[origin(q)]]

-----------------------------------------------------------------------------
(* The working trees and indexes an invocation can start from *)

Reg(path, data) == [path |-> path, kind |-> "reg", data |-> data]
Dir(path) == [path |-> path, kind |-> "dir", data |-> 0]

MkFs(files) ==
    [p \in {e.path : e \in files} |->
        LET e == CHOOSE x \in files : x.path = p
        IN  [kind |-> e.kind, data |-> e.data]]

Entry(name, fp) == [name |-> name, fp |-> fp]

\* sib:     a tracked file "a-" exists next to the directory "a"
\* df:      what "d/f" is: nothing, an untracked file, a tracked file, a directory
\* mod:     the content of "f" differs from what the index records for it
\* tracked: "a/x" and "a/y" are in the index
World(sib, df, mod, tracked) ==
    [fs |-> MkFs({Dir(P_a), Reg(P_ax, 11), Reg(P_ay, 12), Dir(P_d),
                  Reg(P_f, IF mod THEN 2 ELSE 1), Reg(P_u, 5)}
                 \cup (IF sib THEN {Reg(P_asib, 9)} ELSE {})
                 \cup (IF df \in {"untracked", "tracked"} THEN {Reg(P_df, 7)}
                       ELSE IF df = "dir" THEN {Dir(P_df)} ELSE {})),
     index |-> SortEntries({Entry(P_f, 1)}
                 \cup (IF tracked THEN {Entry(P_ax, 11), Entry(P_ay, 12)} ELSE {})
                 \cup (IF sib THEN {Entry(P_asib, 9)} ELSE {})
                 \cup (IF df = "tracked" THEN {Entry(P_df, 7)} ELSE {}))]

Worlds ==
    {World(sib, df, mod, tracked) :
        sib \in BOOLEAN, df \in {"none", "untracked", "tracked", "dir"},
        mod \in BOOLEAN, tracked \in BOOLEAN}

\* the path arguments tried: sources and the destination argument
SourceArgs == {P_a, P_f, P_u, P_b}
DestArgs == {P_b, P_d, P_ab, P_fb}

SourceLists == UNION {[1..n -> SourceArgs] : n \in 0..MaxSources}

NoReport == [changed |-> {}, added |-> {}, deleted |-> {}]

Init ==
    /\ \E w \in Worlds : fs = w.fs /\ index_file = w.index
    /\ lock = "none"
    /\ pc = "idle"
    /\ argv_src = <<>> /\ argv_dst = <<>>
    /\ show_only = FALSE /\ force = FALSE /\ ignore_errors = FALSE
    /\ source = <<>> /\ destination = <<>> /\ modes = <<>>
    /\ count = 0 /\ i = 0
    /\ st = "reg"
    /\ overwritten = {} /\ src_for_dst = {}
    /\ added = {} /\ deleted = {} /\ changed = {}
    /\ active_cache = <<>> /\ active_cache_changed = FALSE
    /\ status = -1 /\ msg = NULL
    /\ renames = <<>> /\ rejects = <<>>
    /\ reported = NoReport
    /\ reruns = 0
    /\ envfails = 0
    /\ fs0 = fs /\ index0 = index_file

-----------------------------------------------------------------------------
(* cmd_mv up to the validation loop: lock, read_cache, the options, the    *)
(* source and destination arrays (lines 73-118).  st0 is what the          *)
(* uninitialised struct stat holds if no lstat has succeeded yet.          *)

\* lines 110-118: the destination of each source
Destinations(srcs, dst) ==
    IF Lstat(dst) = "dir"
    THEN [k \in 1..Len(srcs) |-> add_slash(dst) \o BaseName(srcs[k])]
    ELSE <<dst>>

\* lines 102-104 and 115-116: usage(builtin_mv_usage)
UsageError(srcs, dst) ==
    \/ Len(srcs) < 1
    \/ Lstat(dst) # "dir" /\ Len(srcs) # 1

\* line 75 left out: the index is read without the lock
hold_lock_file_for_update_skipped == "none"

\* line 75: the lock file is created before read_cache
hold_lock_file_for_update == "held"

Setup(srcs, dst, n, f, k, st0) ==
    /\ lock' = hold_lock_file_for_update
    /\ active_cache' = index_file
    /\ active_cache_changed' = FALSE
    /\ argv_src' = srcs /\ argv_dst' = dst
    /\ show_only' = n /\ force' = f /\ ignore_errors' = k
    /\ count' = Len(srcs)
    /\ i' = 0
    /\ overwritten' = {} /\ src_for_dst' = {}
    /\ added' = {} /\ deleted' = {} /\ changed' = {}
    /\ renames' = <<>> /\ rejects' = <<>>
    /\ envfails' = 0
    /\ fs0' = fs /\ index0' = index_file
    /\ msg' = NULL
    /\ IF UsageError(srcs, dst)
       THEN /\ pc' = "usage" /\ status' = 129
            /\ source' = srcs /\ destination' = <<>> /\ modes' = <<>>
            /\ st' = IF Len(srcs) < 1 \/ Lstat(dst) = ENOENT THEN st0 ELSE Lstat(dst)
       ELSE /\ pc' = "checking" /\ status' = -1
            /\ source' = srcs
            /\ destination' = Destinations(srcs, dst)
            /\ modes' = [m \in 1..Len(srcs) |-> BOTH]
            /\ st' = IF Lstat(dst) = ENOENT THEN st0 ELSE Lstat(dst)
    /\ UNCHANGED <<fs, index_file>>

Invoke ==
    /\ pc = "idle"
    /\ \E srcs \in SourceLists, dst \in DestArgs,
          n \in BOOLEAN, f \in BOOLEAN, k \in BOOLEAN, st0 \in {"dir", "reg"} :
          /\ Lstat(dst) # ENOENT => st0 = "reg"
          /\ Setup(srcs, dst, n, f, k, st0)
    /\ UNCHANGED <<reported, reruns>>

-----------------------------------------------------------------------------
(* The validation loop, lines 121-237: one iteration per step *)

RemoveAt(seq, k) == SubSeq(seq, 1, k - 1) \o SubSeq(seq, k + 1, Len(seq))

\* lines 148-152: the end of the run of entries below dir that starts at last
RECURSIVE ScanLast(_, _, _)
ScanLast(cache, dir, last) ==
    IF last < Len(cache) /\ Below(cache[last + 1].name, dir)
    THEN ScanLast(cache, dir, last + 1)
    ELSE last

\* lines 157-181: the pairs a directory expands to, one per entry first..last-1;
\* prefix_path copies strlen(dest_dir) bytes of the slashed name, then the suffix
Expansion(cache, dir, dest_dir, first, last) ==
    [j \in 1..(last - first) |->
        LET path == cache[first + j].name
        IN  [src |-> path,
             dst |-> SubSeq(add_slash(dest_dir), 1, Len(dest_dir))
                        \o SubSeq(path, Len(dir) + 1, Len(path))]]

\* lines 132-186: the source is taken for a directory
CheckDirectory(src, dst, bad0) ==
    IF Lstat(dst) # ENOENT
    THEN [bad |-> "cannot move directory over file", st |-> Lstat(dst),
          wd |-> FALSE, huh |-> FALSE, exp |-> <<>>,
          ow |-> overwritten, sfd |-> src_for_dst]
    ELSE LET pos == cache_name_pos(active_cache, src)
             first == -1 - pos
             last == ScanLast(active_cache, src, first)
         IN  IF pos >= 0
             THEN [bad |-> bad0, st |-> "dir", wd |-> TRUE, huh |-> TRUE,
                   exp |-> <<>>, ow |-> overwritten, sfd |-> src_for_dst]
             ELSE [bad |-> IF last - first < 1 THEN "source directory is empty"
                           ELSE bad0,
                   st |-> "dir", wd |-> TRUE, huh |-> FALSE,
                   exp |-> IF last - first >= 1 /\ bad0 = NULL
                           THEN Expansion(active_cache, src, dst, first, last)
                           ELSE <<>>,
                   ow |-> overwritten, sfd |-> src_for_dst]

\* lines 207-210: destination is source or lies below it
IntoItself(src, dst) ==
    /\ StartsWith(dst, src)
    /\ ByteAt(dst, Len(src)) \in {0, Slash}

\* lines 188-221: the source is not taken for a directory
CheckFile(src, dst, bad0, st1) ==
    LET exists == bad0 = NULL /\ Lstat(dst) # ENOENT
        st2 == IF exists THEN Lstat(dst) ELSE st1
        bad1 == IF ~exists THEN bad0
                ELSE IF ~force THEN "destination exists"
                ELSE IF st2 = "reg" THEN NULL
                ELSE "Cannot overwrite"
        ow == IF exists /\ force /\ st2 = "reg"
              THEN overwritten \cup {dst} ELSE overwritten
        bad2 == IF bad1 = NULL /\ IntoItself(src, dst)
                THEN "can not move directory into itself" ELSE bad1
        bad3 == IF bad2 = NULL /\ cache_name_pos(active_cache, src) < 0
                THEN "not under version control" ELSE bad2
        bad4 == IF bad3 = NULL /\ dst \in src_for_dst
                THEN "multiple sources for the same target" ELSE bad3
    IN  [bad |-> bad4, st |-> st2, wd |-> FALSE, huh |-> FALSE, exp |-> <<>>,
         ow |-> ow,
         sfd |-> IF bad3 = NULL THEN src_for_dst \cup {dst} ELSE src_for_dst]

\* lines 129-221: the checks of pair i
CheckPair(src, dst) ==
    LET bad0 == IF Lstat(src) = ENOENT THEN "bad source" ELSE NULL
        st1 == IF Lstat(src) = ENOENT THEN st ELSE Lstat(src)
    IN  IF st1 = "dir"
        THEN CheckDirectory(src, dst, bad0)
        ELSE CheckFile(src, dst, bad0, st1)

\* lines 225 and 233: a bad pair ends the run unless -k was given
RejectAborts_inverted == ignore_errors

RejectAborts == ~ignore_errors

Checking ==
    /\ pc = "checking"
    /\ LET src == source[i + 1]
           dst == destination[i + 1]
           o == CheckPair(src, dst)
           n == Len(o.exp)
           modes1 == IF o.wd THEN [modes EXCEPT ![i + 1] = WORKING_DIRECTORY]
                     ELSE modes
           size == IF Len(modes1) > count + n THEN Len(modes1) ELSE count + n
           modes2 == [k \in 1..size |->
                         IF k > count /\ k <= count + n THEN INDEX ELSE modes1[k]]
           source1 == source \o [j \in 1..n |-> o.exp[j].src]
           destination1 == destination \o [j \in 1..n |-> o.exp[j].dst]
           count1 == count + n
       IN  /\ st' = o.st
           /\ overwritten' = o.ow
           /\ src_for_dst' = o.sfd
           /\ modes' = modes2
           /\ IF o.huh
              THEN /\ pc' = "died" /\ status' = 128
                   /\ msg' = "Huh? is in index?"
                   /\ UNCHANGED <<source, destination, count, i, rejects>>
              ELSE IF o.bad # NULL
              THEN /\ rejects' = Append(rejects,
                                    [src |-> src, dst |-> dst, reason |-> o.bad])
                   /\ IF RejectAborts
                      THEN /\ pc' = "died" /\ status' = 128
                           /\ msg' = o.bad
                           /\ UNCHANGED <<source, destination, count, i>>
                      ELSE /\ count' = count1 - 1
                           /\ source' = RemoveAt(source1, i + 1)
                           /\ destination' = RemoveAt(destination1, i + 1)
                           /\ pc' = IF i + 1 < count' THEN "checking"
                                    ELSE IF count' > 0 THEN "renaming"
                                    ELSE "finish"
                           /\ i' = IF i + 1 < count' THEN i + 1 ELSE 0
                           /\ UNCHANGED <<status, msg>>
              ELSE /\ count' = count1
                   /\ source' = source1
                   /\ destination' = destination1
                   /\ pc' = IF i + 1 < count' THEN "checking" ELSE "renaming"
                   /\ i' = IF i + 1 < count' THEN i + 1 ELSE 0
                   /\ UNCHANGED <<status, msg, rejects>>
    /\ UNCHANGED <<fs, index_file, lock, argv_src, argv_dst, show_only, force,
                   ignore_errors, added, deleted, changed, active_cache,
                   active_cache_changed, renames, reported, reruns, envfails,
                   fs0, index0>>

-----------------------------------------------------------------------------
(* The executor loop, lines 239-262: one iteration per step *)

\* line 243, without the dry-run test
RenameAttempted_always(mode) == mode # INDEX

\* line 243: the pair is renamed on the filesystem
RenameAttempted(mode) == ~show_only /\ mode # INDEX

\* line 252, looking at the working tree instead of the index
SourceInIndex_lstat(src) == Lstat(src) # ENOENT

\* line 252: the source has an index entry
SourceInIndex(src) == cache_name_pos(active_cache, src) >= 0

Renaming ==
    /\ pc = "renaming"
    /\ LET src == source[i + 1]
           dst == destination[i + 1]
           mode == modes[i + 1]
           attempt == RenameAttempted(mode)
       IN  \E refused \in BOOLEAN :
              /\ refused => attempt /\ envfails < MaxRenameFailures
              /\ LET ok == attempt /\ ~refused /\ RenameOk(fs, src, dst)
                 IN  /\ fs' = IF ok THEN RenameApply(fs, src, dst) ELSE fs
                     /\ envfails' = IF refused THEN envfails + 1 ELSE envfails
                     /\ renames' = IF attempt
                                   THEN Append(renames,
                                           [src |-> src, dst |-> dst, ok |-> ok])
                                   ELSE renames
                     /\ IF attempt /\ ~ok /\ ~ignore_errors
                        THEN /\ pc' = "died" /\ status' = 128
                             /\ msg' = "renaming failed"
                             /\ UNCHANGED <<i, added, deleted, changed>>
                        ELSE /\ pc' = IF i + 1 < count THEN "renaming" ELSE "finish"
                             /\ i' = IF i + 1 < count THEN i + 1 ELSE 0
                             /\ UNCHANGED <<status, msg>>
                             /\ IF mode = WORKING_DIRECTORY
                                THEN UNCHANGED <<added, deleted, changed>>
                                ELSE IF SourceInIndex(src)
                                THEN /\ deleted' = deleted \cup {src}
                                     /\ IF dst \in overwritten
                                        THEN /\ changed' = changed \cup {dst}
                                             /\ added' = added
                                        ELSE /\ added' = added \cup {dst}
                                             /\ changed' = changed
                                ELSE /\ added' = added \cup {dst}
                                     /\ UNCHANGED <<deleted, changed>>
    /\ UNCHANGED <<index_file, lock, argv_src, argv_dst, show_only, force,
                   ignore_errors, source, destination, modes, count, st,
                   overwritten, src_for_dst, active_cache, active_cache_changed,
                   rejects, reported, reruns, fs0, index0>>

-----------------------------------------------------------------------------
(* After the loops, lines 264-297 *)

\* lines 264-267: the dry run prints the three lists
ShowLists ==
    /\ pc = "finish"
    /\ show_only
    /\ reported' = [changed |-> changed, added |-> added, deleted |-> deleted]
    /\ pc' = "done" /\ status' = 0
    /\ UNCHANGED <<fs, index_file, lock, argv_src, argv_dst, show_only, force,
                   ignore_errors, source, destination, modes, count, i, st,
                   overwritten, src_for_dst, added, deleted, changed,
                   active_cache, active_cache_changed, msg, renames, rejects,
                   reruns, envfails, fs0, index0>>

\* refresh_cache_entry: the entry's metadata recomputed from the file
refresh_cache_entry(cache, path) ==
    IF Lstat(path) = "reg"
    THEN InsertEntry(cache, Entry(path, fs[path].data))
    ELSE cache

RECURSIVE RefreshAll(_, _)
RefreshAll(cache, paths) ==
    IF paths = {} THEN cache
    ELSE LET p == CHOOSE x \in paths : TRUE
         IN  RefreshAll(refresh_cache_entry(cache, p), paths \ {p})

\* lines 269-277
RefreshChanged ==
    /\ pc = "finish"
    /\ ~show_only
    /\ IF \E p \in changed : cache_name_pos(active_cache, p) < 0
       THEN /\ pc' = "died" /\ status' = 128
            /\ msg' = "Huh? Cache entry unknown?"
            /\ UNCHANGED active_cache
       ELSE /\ pc' = "adding"
            /\ active_cache' = RefreshAll(active_cache, changed)
            /\ UNCHANGED <<status, msg>>
    /\ UNCHANGED <<fs, index_file, lock, argv_src, argv_dst, show_only, force,
                   ignore_errors, source, destination, modes, count, i, st,
                   overwritten, src_for_dst, added, deleted, changed,
                   active_cache_changed, renames, rejects, reported, reruns,
                   envfails, fs0, index0>>

\* add_file_to_index: a fresh entry from the file's current content
add_file_to_index(cache, path) == InsertEntry(cache, Entry(path, fs[path].data))

RECURSIVE AddAll(_, _)
AddAll(cache, paths) ==
    IF paths = {} THEN cache
    ELSE LET p == CHOOSE x \in paths : TRUE
         IN  AddAll(add_file_to_index(cache, p), paths \ {p})

\* lines 279-282
AddAdded ==
    /\ pc = "adding"
    /\ IF \E p \in added : Lstat(p) # "reg"
       THEN /\ pc' = "died" /\ status' = 128
            /\ msg' = "unable to add"
            /\ UNCHANGED <<active_cache, active_cache_changed>>
       ELSE /\ pc' = "deleting"
            /\ active_cache' = AddAll(active_cache, added)
            /\ active_cache_changed' = (active_cache_changed \/ added # {})
            /\ UNCHANGED <<status, msg>>
    /\ UNCHANGED <<fs, index_file, lock, argv_src, argv_dst, show_only, force,
                   ignore_errors, source, destination, modes, count, i, st,
                   overwritten, src_for_dst, added, deleted, changed, renames,
                   rejects, reported, reruns, envfails, fs0, index0>>

\* remove_file_from_cache, for every path of the list
remove_files_from_cache(cache, paths) == RemoveEntries(cache, paths)

\* line 289 without its test: the index is written every time
IndexDirty_always == TRUE

\* line 289: if (active_cache_changed)
IndexDirty == active_cache_changed'

\* lines 284-289
RemoveDeleted ==
    /\ pc = "deleting"
    /\ active_cache' = remove_files_from_cache(active_cache, deleted)
    /\ active_cache_changed' =
          (active_cache_changed \/ deleted \cap Names(active_cache) # {})
    /\ IF IndexDirty
       THEN pc' = "writing" /\ status' = status
       ELSE pc' = "done" /\ status' = 0
    /\ UNCHANGED <<fs, index_file, lock, argv_src, argv_dst, show_only, force,
                   ignore_errors, source, destination, modes, count, i, st,
                   overwritten, src_for_dst, added, deleted, changed, msg,
                   renames, rejects, reported, reruns, envfails, fs0, index0>>

\* lines 290-297: write_cache, close, commit_lock_file
WriteCache ==
    /\ pc = "writing"
    /\ \E written \in BOOLEAN :
          IF written
          THEN /\ index_file' = active_cache
               /\ lock' = "committed"
               /\ pc' = "done" /\ status' = 0
               /\ msg' = msg
          ELSE /\ pc' = "died" /\ status' = 128
               /\ msg' = "Unable to write new index file"
               /\ UNCHANGED <<index_file, lock>>
    /\ UNCHANGED <<fs, argv_src, argv_dst, show_only, force, ignore_errors,
                   source, destination, modes, count, i, st, overwritten,
                   src_for_dst, added, deleted, changed, active_cache,
                   active_cache_changed, renames, rejects, reported, reruns,
                   envfails, fs0, index0>>

-----------------------------------------------------------------------------
(* The process ends (return from cmd_mv, die or usage): the lock file, if *)
(* it was not committed, is removed by the exit handler the lock installed *)

Exit ==
    /\ pc \in {"done", "died", "usage"}
    /\ pc' = "exited"
    /\ lock' = IF lock = "held" THEN "removed" ELSE lock
    /\ UNCHANGED <<fs, index_file, argv_src, argv_dst, show_only, force,
                   ignore_errors, source, destination, modes, count, i, st,
                   overwritten, src_for_dst, added, deleted, changed,
                   active_cache, active_cache_changed, status, msg, renames,
                   rejects, reported, reruns, envfails, fs0, index0>>

-----------------------------------------------------------------------------
(* The user repeats the command of a finished dry run, with or without -n *)

Rerun ==
    /\ pc = "exited"
    /\ status = 0
    /\ show_only
    /\ reruns < MaxReruns
    /\ reruns' = reruns + 1
    /\ \E n \in BOOLEAN, st0 \in {"dir", "reg"} :
          /\ Lstat(argv_dst) # ENOENT => st0 = "reg"
          /\ Setup(argv_src, argv_dst, n, force, ignore_errors, st0)
    /\ UNCHANGED reported

Next ==
    \/ Invoke
    \/ Checking
    \/ Renaming
    \/ ShowLists
    \/ RefreshChanged
    \/ AddAdded
    \/ RemoveDeleted
    \/ WriteCache
    \/ Exit
    \/ Rerun

Spec == Init /\ [][Next]_vars

-----------------------------------------------------------------------------
(* Vocabulary of the properties *)

Terminated == pc \in {"done", "died"}

\* the executor loop has run to its end
PastExecutor == pc \in {"finish", "adding", "deleting", "writing", "done"}

WriteFailed == msg = "Unable to write new index file"

\* the run was ended by a fatal error of the index update, after the executor
InternalError ==
    msg \in {"Huh? Cache entry unknown?", "unable to add",
             "Unable to write new index file"}

\* the destination of argument k, as resolved at the start of the invocation
InitialDest(k) ==
    IF argv_dst \in DOMAIN fs0 /\ fs0[argv_dst].kind = "dir"
    THEN add_slash(argv_dst) \o BaseName(argv_src[k])
    ELSE argv_dst

KindAt0(path) == IF path \in DOMAIN fs0 THEN fs0[path].kind ELSE ENOENT

TrackedBelow0(dir) == {n \in Names(index0) : Below(n, dir)}

-----------------------------------------------------------------------------
(* C1: without -k, once validation has rejected a pair the invocation has  *)
(* aborted, no rename was attempted, and the working tree, the in-memory   *)
(* index and the persisted index are those of the start.                   *)
C1_RejectAbortsUntouched ==
    (pc # "idle" /\ ~ignore_errors /\ rejects # <<>>) =>
        /\ pc \in {"died", "exited"}
        /\ status # 0
        /\ renames = <<>>
        /\ fs = fs0
        /\ active_cache = index0
        /\ ~active_cache_changed
        /\ index_file = index0

\* a pair is rejected after an earlier pair of the list was accepted
C1_Witness ==
    /\ ~ignore_errors /\ ~show_only
    /\ rejects # <<>>
    /\ pc = "died"
    /\ i > 0

(* C2: a pair whose destination is its source or lies below it never gets  *)
(* past validation: it is in no plan handed to the executor and no rename  *)
(* is attempted for it.                                                    *)
C2_NestedNeverRenamed ==
    /\ pc = "renaming" =>
          \A k \in 1..count : ~IntoItself(source[k], destination[k])
    /\ \A k \in 1..Len(renames) : ~IntoItself(renames[k].src, renames[k].dst)

(* C3: (stated for the runs without -k) when a run that is not a dry run   *)
(* has ended, normally or on a failed rename, the index agrees with the    *)
(* working tree for every pair whose source was tracked: moved on disk     *)
(* means moved in the index, not moved on disk means the source is still   *)
(* in the index.                                                           *)
C3_FinalIndexMatchesDisk ==
    (Terminated /\ ~show_only /\ ~ignore_errors /\ ~InternalError) =>
        \A k \in 1..count :
            source[k] \in Names(index0) /\ source[k] \in DOMAIN fs0 =>
                IF source[k] \notin DOMAIN fs /\ destination[k] \in DOMAIN fs
                THEN /\ source[k] \notin Names(index_file)
                     /\ destination[k] \in Names(index_file)
                ELSE source[k] \in Names(index_file)

\* C4 vocabulary: the arguments as they stand at the start
Untracked0(s) ==
    /\ s \in DOMAIN fs0
    /\ s \notin Names(index0)
    /\ TrackedBelow0(s) = {}

\* a move that validation accepts when it is the only one given: a tracked
\* file, or a directory with tracked files whose range starts at its insertion
\* point in the index, to a destination that does not exist
ValidMove0(k) ==
    LET s == argv_src[k]
    IN  /\ InitialDest(k) \notin DOMAIN fs0
        /\ ~IntoItself(s, InitialDest(k))
        /\ \/ KindAt0(s) = "reg" /\ s \in Names(index0)
           \/ /\ KindAt0(s) = "dir"
              /\ TrackedBelow0(s) # {}
              /\ ~\E n \in Names(index0) : StartsWith(n, s) /\ ~Below(n, s)

MovePerformed(k) ==
    LET s == argv_src[k]
        d == InitialDest(k)
    IN  /\ s \notin DOMAIN fs
        /\ d \in DOMAIN fs
        /\ KindAt0(s) = "reg" =>
              s \notin Names(index_file) /\ d \in Names(index_file)
        /\ KindAt0(s) = "dir" =>
              \A n \in TrackedBelow0(s) :
                  /\ n \notin Names(index_file)
                  /\ d \o SubSeq(n, Len(s) + 1, Len(n)) \in Names(index_file)

(* C4: under -k, with exactly one untracked source among otherwise valid   *)
(* and distinct moves, the run exits 0 and every other move is performed   *)
(* on disk and in the index, wherever the untracked source is in the list. *)
C4_IgnoreErrorsMovesTheRest ==
    LET bad == {k \in 1..Len(argv_src) : Untracked0(argv_src[k])}
        rest == (1..Len(argv_src)) \ bad
    IN  (/\ Terminated /\ ignore_errors /\ ~show_only
         /\ envfails = 0 /\ ~WriteFailed
         /\ Cardinality(bad) = 1
         /\ rest # {}
         /\ \A k \in rest : ValidMove0(k)
         /\ \A j, k \in rest : j # k => argv_src[j] # argv_src[k]) =>
            /\ status = 0
            /\ \A k \in rest : MovePerformed(k)

(* C5: in a dry run no rename is attempted and the working tree, the       *)
(* in-memory index and the persisted index stay those of the start.        *)
C5_DryRunMutatesNothing ==
    (pc # "idle" /\ show_only) =>
        /\ renames = <<>>
        /\ fs = fs0
        /\ active_cache = index0
        /\ ~active_cache_changed
        /\ index_file = index0

\* a dry run of a plan that has something to rename and to update has ended
C5_Witness ==
    /\ show_only
    /\ pc = "done"
    /\ deleted # {} /\ added # {}
    /\ \E k \in 1..count : modes[k] # INDEX

(* C6: when the command of a dry run is repeated without -n from the same  *)
(* working tree and index, the changed, added and deleted sets the real    *)
(* run has at the end of its executor loop, and applies, are the ones the  *)
(* dry run printed.                                                        *)
C6_DryRunReportsRealSets ==
    (reruns > 0 /\ ~show_only /\ PastExecutor) =>
        reported = [changed |-> changed, added |-> added, deleted |-> deleted]

\* a repeated run has applied non-empty changed and deleted sets
C6_Witness ==
    /\ reruns > 0 /\ ~show_only
    /\ pc = "done"
    /\ changed # {} /\ deleted # {}
    /\ index_file # index0

(* C7: "mv a b" with a a directory, b not existing and exactly a/x and a/y *)
(* tracked below a ends with exactly one rename, a to b, done, and with    *)
(* b/x and b/y in the index, nothing below a, and no entry for b.          *)
C7_DirectoryMove ==
    (/\ Terminated /\ ~show_only /\ envfails = 0 /\ ~WriteFailed
     /\ argv_src = <<P_a>> /\ argv_dst = P_b
     /\ KindAt0(P_a) = "dir" /\ P_b \notin DOMAIN fs0
     /\ TrackedBelow0(P_a) = {P_ax, P_ay}) =>
        /\ renames = <<[src |-> P_a, dst |-> P_b, ok |-> TRUE]>>
        /\ {n \in Names(index_file) : Below(n, P_a)} = {}
        /\ {n \in Names(index_file) : Below(n, P_b)} =
              {P_b \o <<Slash, 120>>, P_b \o <<Slash, 121>>}
        /\ P_b \notin Names(index_file)

(* C8: after a real run that moved a single tracked file to a destination  *)
(* that did not exist, the source is not in the index and the destination  *)
(* is, with the metadata the source's entry had before.                    *)
C8_MoveKeepsMetadata ==
    (/\ pc = "done" /\ ~show_only /\ rejects = <<>>
     /\ Len(argv_src) = 1
     /\ KindAt0(argv_src[1]) = "reg"
     /\ argv_src[1] \in Names(index0)
     /\ InitialDest(1) \notin DOMAIN fs0
     /\ renames = <<[src |-> argv_src[1], dst |-> InitialDest(1), ok |-> TRUE]>>) =>
        /\ argv_src[1] \notin Names(index_file)
        /\ InitialDest(1) \in Names(index_file)
        /\ EntryOf(index_file, InitialDest(1)).fp = EntryOf(index0, argv_src[1]).fp

(* C9: for a single tracked file whose destination exists as a plain file: *)
(* without -f the pair is rejected with "destination exists"; with -f the  *)
(* run ends with exit 0, the destination in the changed set and not in the *)
(* added set, and, unless it is a dry run, the file renamed and the index  *)
(* holding the destination and no longer the source.                       *)
C9_OverwritePlainFile ==
    (/\ pc \notin {"idle", "usage", "checking"}
     /\ Len(argv_src) = 1
     /\ KindAt0(argv_src[1]) = "reg"
     /\ argv_src[1] \in Names(index0)
     /\ argv_src[1] # InitialDest(1)
     /\ KindAt0(InitialDest(1)) = "reg") =>
        /\ ~force =>
              rejects = <<[src |-> argv_src[1], dst |-> InitialDest(1),
                           reason |-> "destination exists"]>>
        /\ (force /\ Terminated /\ envfails = 0 /\ ~WriteFailed) =>
              /\ status = 0
              /\ InitialDest(1) \in changed
              /\ InitialDest(1) \notin added
              /\ ~show_only =>
                    /\ renames = <<[src |-> argv_src[1], dst |-> InitialDest(1),
                                    ok |-> TRUE]>>
                    /\ argv_src[1] \notin Names(index_file)
                    /\ InitialDest(1) \in Names(index_file)

(* C10: the plan the executor works on holds no two pairs with the same    *)
(* destination, whatever their modes.                                      *)
C10_UniqueDestinations ==
    pc = "renaming" =>
        \A j, k \in 1..count : j # k => destination[j] # destination[k]

-----------------------------------------------------------------------------
AllRejected == Len(argv_src) >= 1 /\ Len(rejects) = Len(argv_src)

(* C12 as stated: under -k a run in which every candidate pair is rejected, *)
(* so that count drops to zero, exits non-zero, and a run with a surviving *)
(* pair whose index write succeeds exits 0.                                *)
C12_ExitsNonZeroWhenAllRejected ==
    (ignore_errors /\ Terminated) =>
        /\ (AllRejected /\ count = 0) => status # 0
        /\ (count > 0 /\ lock = "committed") => status = 0

(* C12 as amended: under -k a run in which every candidate pair is         *)
(* rejected ends with count zero and exit 0, having renamed nothing and    *)
(* left the index as it was; a run with a surviving pair whose index write *)
(* succeeds exits 0.                                                       *)
C12_ExitsZeroWhenAllRejected ==
    (ignore_errors /\ Terminated) =>
        /\ AllRejected =>
              /\ pc = "done" /\ status = 0
              /\ count = 0
              /\ renames = <<>> /\ fs = fs0
              /\ lock = "held" /\ index_file = index0
        /\ (count > 0 /\ lock = "committed") => status = 0

\* a real run under -k has ended after its only pair was rejected
C12_Witness ==
    /\ ignore_errors /\ ~show_only
    /\ pc = "done"
    /\ AllRejected
    /\ count = 0

(* C13: the index file differs from the one at the start only after the    *)
(* single write at the end: the write has happened (lock committed) only   *)
(* when the run is over with exit 0, the in-memory index was marked        *)
(* changed and differs from the one loaded, every pair of the plan has     *)
(* been through the executor, and the file holds the in-memory index; a    *)
(* run that is still going, or changed nothing, has not written.           *)
C13_WrittenOnceAtEndIfDirty ==
    /\ index_file # index0 => lock = "committed"
    /\ pc \notin {"idle", "done", "exited"} => lock = "held"
    /\ pc = "done" /\ ~active_cache_changed => lock = "held"
    /\ lock = "committed" =>
          /\ pc \in {"done", "exited"}
          /\ status = 0
          /\ active_cache_changed
          /\ active_cache # index0
          /\ index_file = active_cache
          /\ Len(renames) = Cardinality({k \in 1..count : modes[k] # INDEX})
          /\ \A k \in 1..count :
                modes[k] # WORKING_DIRECTORY =>
                    destination[k] \in added \cup changed

\* the index was written at the end of a run with several pairs
C13_Witness ==
    /\ pc = "done"
    /\ lock = "committed"
    /\ count > 1
    /\ index_file # index0

-----------------------------------------------------------------------------
\* the first argument has been through the validation loop
FirstChecked ==
    /\ Len(argv_src) >= 1
    /\ pc \notin {"idle", "usage"}
    /\ status # 129
    /\ ~(pc = "checking" /\ i = 0)

\* a rejection of src with that reason is on record
RejectedAs(src, reason) ==
    \E j \in 1..Len(rejects) : rejects[j].src = src /\ rejects[j].reason = reason

(* C14: for a first argument that is a directory with a destination that  *)
(* does not exist, validation rejects it as empty exactly when the index   *)
(* holds no entry below it, and otherwise (stated for runs without -k,     *)
(* where the list is never compacted) appends one INDEX pair per entry     *)
(* below it, to the destination plus "/" plus the entry's suffix.          *)
C14_ExpandsExactlyTheEntriesBelow ==
    (/\ FirstChecked
     /\ KindAt0(argv_src[1]) = "dir"
     /\ KindAt0(InitialDest(1)) = ENOENT) =>
        LET dir == argv_src[1]
            dest == InitialDest(1)
        IN  /\ RejectedAs(dir, "source directory is empty")
                  <=> TrackedBelow0(dir) = {}
            /\ (~ignore_errors /\ TrackedBelow0(dir) # {}) =>
                  \A n \in TrackedBelow0(dir) :
                      \E k \in 1..count :
                          /\ modes[k] = INDEX
                          /\ source[k] = n
                          /\ destination[k] =
                                dest \o SubSeq(n, Len(dir) + 1, Len(n))

(* C15: under -k every pair of the plan handed to the executor that is not *)
(* run as a directory rename has its source in the index, so the executor  *)
(* never files a destination as added for a source without an entry.       *)
C15_PlanSourcesAreTracked ==
    (ignore_errors /\ pc = "renaming") =>
        \A k \in 1..count :
            modes[k] # WORKING_DIRECTORY => SourceInIndex(source[k])

(* C16: no rename is attempted for a path that lies below a directory      *)
(* argument (the pairs a directory expands to are index-only); a directory *)
(* argument never enters the deleted set and its destination never enters  *)
(* the added or changed set; and a tracked file argument that was renamed  *)
(* on disk is in the deleted set once the executor is through.             *)
C16_ExecutedByValidationMode ==
    /\ \A j \in 1..Len(renames) : \A k \in 1..Len(argv_src) :
          ~Below(renames[j].src, argv_src[k])
    /\ \A k \in 1..Len(argv_src) :
          (pc # "idle" /\ status # 129 /\ KindAt0(argv_src[k]) = "dir") =>
              /\ argv_src[k] \notin deleted
              /\ InitialDest(k) \notin added \cup changed
    /\ PastExecutor =>
          \A j \in 1..Len(renames) :
              (/\ renames[j].ok
               /\ KindAt0(renames[j].src) = "reg"
               /\ renames[j].src \in Names(index0)) =>
                  renames[j].src \in deleted

(* C17: under -k a pair whose rename failed is skipped: once the executor  *)
(* is through, its source is not in the deleted set and its destination is *)
(* in neither the added nor the changed set, and a run that ends normally  *)
(* still has the source's entry in the index.                              *)
C17_FailedRenameSkipsPair ==
    (ignore_errors /\ PastExecutor) =>
        \A j \in 1..Len(renames) :
            ~renames[j].ok =>
                /\ renames[j].src \notin deleted
                /\ renames[j].dst \notin added \cup changed
                /\ (pc = "done" /\ renames[j].src \in Names(index0)) =>
                      renames[j].src \in Names(index_file)

(* C18: a rejected pair whose source does not exist is rejected with "bad  *)
(* source", and one whose source is a directory and whose destination      *)
(* exists with "cannot move directory over file": the first failing check  *)
(* of the order decides, no later check replaces its reason.               *)
C18_FirstFailingCheckDecides ==
    \A j \in 1..Len(rejects) :
        LET r == rejects[j]
        IN  /\ KindAt0(r.src) = ENOENT => r.reason = "bad source"
            /\ (KindAt0(r.src) = "dir" /\ KindAt0(r.dst) # ENOENT) =>
                  r.reason = "cannot move directory over file"

(* C19: when the changed set is about to be refreshed every path in it has *)
(* an entry in the index, and no run ends with the fatal "Cache entry      *)
(* unknown" error.                                                         *)
C19_ChangedPathsHaveEntries ==
    /\ (pc = "finish" /\ ~show_only) =>
          \A path \in changed : cache_name_pos(active_cache, path) >= 0
    /\ msg # "Huh? Cache entry unknown?"

(* C20: every pair a directory expansion appended has been visited by the  *)
(* validation loop when the loop ends: a pair below a directory argument   *)
(* that is in the plan handed to the executor has passed the duplicate     *)
(* test, which recorded its destination; and the loop never stands beyond  *)
(* the end of the list.                                                    *)
C20_AppendedPairsAreVisited ==
    /\ pc = "checking" => i < count
    /\ pc = "renaming" =>
          \A k \in 1..count :
              (\E a \in 1..Len(argv_src) : Below(source[k], argv_src[a])) =>
                  destination[k] \in src_for_dst


====
